---- MODULE Spec2Model ----
\* A model of macaddress.py: hardware address classes (size in bits plus
\* format strings), their construction from int / bytes / str, the
\* conversions back, the comparisons, and the format matcher _parse.
\*
\* Python integers are unbounded, and the provided classes are up to 64 bits
\* wide, so an integer is modelled as its binary numeral: a tuple of bits,
\* most significant first, without leading zeros (zero is the empty tuple).
\* A str is a tuple of one-character strings, a bytes object a tuple of
\* numbers in 0..255.
EXTENDS Integers, Sequences, FiniteSets, TLC

VARIABLES classes, arg, a, b, c, call, ret

vars == <<classes, arg, a, b, c, call, ret>>

-----------------------------------------------------------------------------
\* Python int arithmetic on binary numerals.

Zeros(k) == [i \in 1..k |-> 0]

\* Drop leading zero bits.
Norm(s) ==
    LET ones == {i \in 1..Len(s) : s[i] = 1}
    IN  IF ones = {} THEN <<>>
        ELSE SubSeq(s, CHOOSE i \in ones : \A k \in ones : i <= k, Len(s))

RECURSIVE IntOf(_)
\* The numeral of a small natural number.
IntOf(n) == IF n = 0 THEN <<>> ELSE IntOf(n \div 2) \o <<n % 2>>

RECURSIVE NatOf(_)
\* The small natural number of a numeral.
NatOf(x) == IF x = <<>> THEN 0 ELSE 2 * NatOf(SubSeq(x, 1, Len(x) - 1)) + x[Len(x)]

\* x << k
Shl(x, k) == IF x = <<>> THEN <<>> ELSE x \o Zeros(k)

\* x >> k
Shr(x, k) == IF Len(x) <= k THEN <<>> ELSE SubSeq(x, 1, Len(x) - k)

\* x & (2^k - 1), as a small natural number
LowBits(x, k) == NatOf(IF Len(x) <= k THEN x ELSE SubSeq(x, Len(x) - k + 1, Len(x)))

\* x < y
IntLt(x, y) ==
    \/ Len(x) < Len(y)
    \/ /\ Len(x) = Len(y)
       /\ \E i \in 1..Len(x) : /\ x[i] < y[i]
                               /\ \A j \in 1..(i - 1) : x[j] = y[j]

\* x >= y
IntGe(x, y) == ~IntLt(x, y)

\* x > y
IntGt(x, y) == IntLt(y, x)

\* x + y, by the schoolbook addition: the carry into a position is 1 when
\* some lower position has two 1 bits and every position between has one
Add(x, y) ==
    LET n    == (IF Len(x) > Len(y) THEN Len(x) ELSE Len(y)) + 1
        X    == Zeros(n - Len(x)) \o x
        Y    == Zeros(n - Len(y)) \o y
        carry(p) == IF \E j \in (p + 1)..n :
                           /\ X[j] + Y[j] = 2
                           /\ \A k \in (p + 1)..(j - 1) : X[k] + Y[k] >= 1
                    THEN 1 ELSE 0
    IN  Norm([p \in 1..n |-> (X[p] + Y[p] + carry(p)) % 2])

RECURSIVE from_bytes(_)
\* int.from_bytes(data, 'big')
from_bytes(data) ==
    IF data = <<>> THEN <<>>
    ELSE Add(Shl(from_bytes(SubSeq(data, 1, Len(data) - 1)), 8),
             IntOf(data[Len(data)]))

\* x.to_bytes(length, 'big'); Python raises OverflowError when x does not fit
to_bytes(x, length) ==
    IF Len(x) > 8 * length
    THEN [ok |-> FALSE,
          error |-> [exc |-> "OverflowError", message |-> "int too big to convert"]]
    ELSE [ok |-> TRUE,
          data |-> [i \in 1..length |-> LowBits(Shr(x, 8 * (length - i)), 8)]]

\* Python's & on small non-negative numbers: (8 - size) & 7 and (4 - size) & 3
\* are taken with mask 2^k - 1, which is the remainder modulo 2^k (the result
\* of % is non-negative for a negative left operand, as Python's & is).
BitAnd7(n) == n % 8
BitAnd3(n) == n % 4

-----------------------------------------------------------------------------
\* Characters and strings.

\* ord() of the characters that occur in the model
Ord ==
    [ch \in {"-", ".", "0", "1", "2", "3", "4", "5", "6", "7", "8", "9", ":",
             "A", "B", "C", "D", "E", "F", "G",
             "a", "b", "c", "d", "e", "f", "g", "x"} |->
        CASE ch = "-" -> 45 [] ch = "." -> 46
          [] ch = "0" -> 48 [] ch = "1" -> 49 [] ch = "2" -> 50 [] ch = "3" -> 51
          [] ch = "4" -> 52 [] ch = "5" -> 53 [] ch = "6" -> 54 [] ch = "7" -> 55
          [] ch = "8" -> 56 [] ch = "9" -> 57 [] ch = ":" -> 58
          [] ch = "A" -> 65 [] ch = "B" -> 66 [] ch = "C" -> 67 [] ch = "D" -> 68
          [] ch = "E" -> 69 [] ch = "F" -> 70 [] ch = "G" -> 71
          [] ch = "a" -> 97 [] ch = "b" -> 98 [] ch = "c" -> 99 [] ch = "d" -> 100
          [] ch = "e" -> 101 [] ch = "f" -> 102 [] ch = "g" -> 103
          [] ch = "x" -> 120]

_HEX_DIGITS ==
    <<"0", "1", "2", "3", "4", "5", "6", "7", "8", "9",
      "A", "B", "C", "D", "E", "F", "a", "b", "c", "d", "e", "f">>

\* character in _HEX_DIGITS
InHexDigits(character) == \E i \in 1..Len(_HEX_DIGITS) : _HEX_DIGITS[i] = character

\* int(character, 16) for a character of _HEX_DIGITS
HexValue(character) ==
    LET i == CHOOSE k \in 1..Len(_HEX_DIGITS) : _HEX_DIGITS[k] = character
    IN  IF i <= 16 THEN i - 1 ELSE i - 7

\* s < t for two strings: the first differing character decides, and a
\* proper prefix is less than its extensions
StrLt(s, t) ==
    \/ \E i \in 1..Len(s) : /\ i <= Len(t)
                            /\ Ord[s[i]] < Ord[t[i]]
                            /\ \A j \in 1..(i - 1) : s[j] = t[j]
    \/ /\ Len(s) < Len(t)
       /\ \A j \in 1..Len(s) : s[j] = t[j]

Reverse(s) == [i \in 1..Len(s) |-> s[Len(s) + 1 - i]]

-----------------------------------------------------------------------------
\* The provided classes.

\* class OUI: size = 24 and its format strings; bases lists the proper
\* ancestors of the class.  A string is a tuple of one-character strings.
OUI ==
    [name |-> "OUI", size |-> 24,
     formats |-> <<
        <<"x","x","-","x","x","-","x","x">>,
        <<"x","x",":","x","x",":","x","x">>,
        <<"x","x","x","x","x","x">> >>,
     bases |-> {"HWAddress"}]

\* class CDI32
CDI32 ==
    [name |-> "CDI32", size |-> 32,
     formats |-> <<
        <<"x","x","-","x","x","-","x","x","-","x","x">>,
        <<"x","x",":","x","x",":","x","x",":","x","x">>,
        <<"x","x","x","x","x","x","x","x">> >>,
     bases |-> {"_StartsWithOUI", "HWAddress"}]

\* class CDI40
CDI40 ==
    [name |-> "CDI40", size |-> 40,
     formats |-> <<
        <<"x","x","-","x","x","-","x","x","-","x","x","-","x","x">>,
        <<"x","x",":","x","x",":","x","x",":","x","x",":","x","x">>,
        <<"x","x","x","x","x","x","x","x","x","x">> >>,
     bases |-> {"_StartsWithOUI", "HWAddress"}]

\* class EUI48
EUI48 ==
    [name |-> "EUI48", size |-> 48,
     formats |-> <<
        <<"x","x","-","x","x","-","x","x","-","x","x","-","x","x","-","x","x">>,
        <<"x","x",":","x","x",":","x","x",":","x","x",":","x","x",":","x","x">>,
        <<"x","x","x","x",".","x","x","x","x",".","x","x","x","x">>,
        <<"x","x","x","x","x","x","x","x","x","x","x","x">> >>,
     bases |-> {"_StartsWithOUI", "HWAddress"}]

\* class MAC
MAC ==
    [name |-> "MAC", size |-> EUI48.size, formats |-> EUI48.formats,
     bases |-> {"EUI48", "_StartsWithOUI", "HWAddress"}]

\* class EUI60
EUI60 ==
    [name |-> "EUI60", size |-> 60,
     formats |-> <<
        <<"x",".","x",".","x",".","x",".","x",".","x",".","x",".","x",".","x",".","x",".","x",".","x",".","x",".","x",".","x">>,
        <<"x","x","-","x","x","-","x","x",".","x",".","x",".","x",".","x",".","x",".","x",".","x",".","x",".","x">>,
        <<"x","x","x","x","x","x","x","x","x","x","x","x","x","x","x">> >>,
     bases |-> {"_StartsWithOUI", "HWAddress"}]

\* class EUI64
EUI64 ==
    [name |-> "EUI64", size |-> 64,
     formats |-> <<
        <<"x","x","-","x","x","-","x","x","-","x","x","-","x","x","-","x","x","-","x","x","-","x","x">>,
        <<"x","x",":","x","x",":","x","x",":","x","x",":","x","x",":","x","x",":","x","x",":","x","x">>,
        <<"x","x","x","x",".","x","x","x","x",".","x","x","x","x",".","x","x","x","x">>,
        <<"x","x","x","x","x","x","x","x","x","x","x","x","x","x","x","x">> >>,
     bases |-> {"_StartsWithOUI", "HWAddress"}]

-----------------------------------------------------------------------------
\* Values.  An argument of a call is tagged with its Python type:
\*   [type |-> "int", neg |-> BOOLEAN, mag |-> numeral], [type |-> "bytes", data |-> ..],
\*   [type |-> "str", text |-> ..], and [type |-> "float"] for any other type.
\* An address object is [cls |-> class, _address |-> numeral], with a field
\* formats when the instance attribute of that name has been set.

PyInt(x) == [type |-> "int", neg |-> FALSE, mag |-> x]
PyNeg(x) == [type |-> "int", neg |-> TRUE, mag |-> x]
PyBytes(data) == [type |-> "bytes", data |-> data]
PyStr(text) == [type |-> "str", text |-> text]
PyFloat == [type |-> "float"]

\* type(obj).__name__
_name(obj) == IF "cls" \in DOMAIN obj THEN obj.cls.name ELSE obj.type

\* isinstance(obj, cls) for an address object and a class
IsInstance(obj, cls) == obj.cls = cls \/ cls.name \in obj.cls.bases

\* isinstance(obj, HWAddress)
IsHWAddress(obj) == "cls" \in DOMAIN obj /\ "HWAddress" \in obj.cls.bases

\* The attribute lookup self.formats: the instance attribute when it is set,
\* else the attribute of the class
FormatsOf(self) == IF "formats" \in DOMAIN self THEN self.formats ELSE self.cls.formats

\* _value_error that loses the last class name when there are several
_value_errorDropsLast(value, error, clss) ==
    LET n == Len(clss)
        class_names == [i \in 1..(IF n > 1 THEN n - 1 ELSE n) |-> clss[i].name]
    IN  [exc |-> "ValueError", value |-> value, error |-> error,
         class_names |-> class_names]

\* ValueError(repr(value) + ' ' + error + ' ' + ', '.join(class_names)): the
\* message is kept as its three parts
_value_error(value, error, clss) ==
    LET n == Len(clss)
        class_names == [i \in 1..n |->
                          IF n > 1 /\ i = n THEN "or " \o clss[i].name
                                            ELSE clss[i].name]
    IN  [exc |-> "ValueError", value |-> value, error |-> error,
         class_names |-> class_names]

Raise(error) == [ok |-> FALSE, error |-> error]

-----------------------------------------------------------------------------
\* _parse

\* The (format, cls) pairs in the order the two nested loops visit them
RECURSIVE FormatPairs(_)
FormatPairs(clss) ==
    IF clss = <<>> THEN <<>>
    ELSE [i \in 1..Len(clss[1].formats) |-> <<clss[1].formats[i], clss[1]>>]
         \o FormatPairs(Tail(clss))

\* CandidateDict with candidates[format] = cls in place of setdefault: the
\* last class offering a format keeps it
CandidateDictLastWins(length, clss) ==
    LET pairs == FormatPairs(clss)
        hits(format) == {i \in 1..Len(pairs) : pairs[i][1] = format}
        keys == {pairs[i][1] : i \in {k \in 1..Len(pairs) : Len(pairs[k][1]) = length}}
    IN  [format \in keys |->
            pairs[CHOOSE i \in hits(format) : \A k \in hits(format) : i >= k][2]]

\* candidates after the loops: candidates.setdefault(format, cls) for every
\* format of the input's length; the first class offering a format keeps it
CandidateDict(length, clss) ==
    LET pairs == FormatPairs(clss)
        hits(format) == {i \in 1..Len(pairs) : pairs[i][1] = format}
        keys == {pairs[i][1] : i \in {k \in 1..Len(pairs) : Len(pairs[k][1]) = length}}
    IN  [format \in keys |->
            pairs[CHOOSE i \in hits(format) : \A k \in hits(format) : i <= k][2]]

\* sorted(candidates.items()): the keys are distinct, so the format decides
SortedItems(dict) ==
    LET keys == DOMAIN dict
    IN  [i \in 1..Cardinality(keys) |->
            LET format == CHOOSE f \in keys :
                              Cardinality({g \in keys : StrLt(g, f)}) = i - 1
            IN  <<format, dict[format]>>]

RECURSIVE AdvanceStart(_, _, _, _, _)
\* while start < end and candidates[start][0][index] < character: start += 1
AdvanceStart(candidates, start, end, index, character) ==
    IF start < end /\ Ord[candidates[start + 1][1][index + 1]] < Ord[character]
    THEN AdvanceStart(candidates, start + 1, end, index, character)
    ELSE start

RECURSIVE RetreatEnd(_, _, _, _, _)
\* while start < end and candidates[end - 1][0][index] > character: end -= 1
RetreatEnd(candidates, start, end, index, character) ==
    IF start < end /\ Ord[candidates[end][1][index + 1]] > Ord[character]
    THEN RetreatEnd(candidates, start, end - 1, index, character)
    ELSE end

\* One pass of the body of the for loop of _parse at position index, from
\* the values state of address, start and end
ScanStep(input, candidates, index, state) ==
    LET ch        == input[index + 1]
        hex       == InHexDigits(ch)
        character == IF hex THEN "x" ELSE ch
        start     == AdvanceStart(candidates, state.start, state.end, index, character)
    IN  [address |-> IF hex THEN Add(Shl(state.address, 4), IntOf(HexValue(ch)))
                            ELSE state.address,
         start   |-> start,
         end     |-> RetreatEnd(candidates, start, state.end, index, character)]

RECURSIVE ScanFrom(_, _, _, _)
\* The for loop of _parse from position index on; its result is the state at
\* the raise, or after the last position
ScanFrom(input, candidates, index, state) ==
    IF index >= Len(input)
    THEN [failed |-> FALSE, address |-> state.address,
          start |-> state.start, end |-> state.end]
    ELSE LET next == ScanStep(input, candidates, index, state)
         IN  IF next.start >= next.end
             THEN [failed |-> TRUE, address |-> next.address,
                   start |-> next.start, end |-> next.end]
             ELSE ScanFrom(input, candidates, index + 1, next)

\* The state of the scan when the for loop of _parse is left
Scan(input, clss) ==
    LET candidates == SortedItems(CandidateDict(Len(input), clss))
    IN  ScanFrom(input, candidates, 0,
                 [address |-> <<>>, start |-> 0, end |-> Len(candidates)])

_parse(input, clss) ==
    LET length == Len(input)
    IN  IF length < 1
        THEN Raise([exc |-> "ValueError",
                    message |-> "hardware address cannot be an empty string"])
        ELSE LET candidates == SortedItems(CandidateDict(length, clss))
                 scan == Scan(input, clss)
             IN  IF scan.failed
                 THEN Raise(_value_error(PyStr(input), "cannot be parsed as", clss))
                 ELSE LET cls    == candidates[scan.start + 1][2]
                          offset == BitAnd3(4 - cls.size)
                      IN  [ok |-> TRUE, address |-> Shr(scan.address, offset),
                           cls |-> cls]

-----------------------------------------------------------------------------
\* HWAddress

\* __init__ with address > overflow in place of address >= overflow
__init__OffByOne(cls, address) ==
    CASE address.type = "int" ->
            LET overflow == Shl(<<1>>, cls.size)
            IN  IF ~address.neg /\ IntGt(address.mag, overflow)
                THEN Raise(_value_error(address, "is too big for", <<cls>>))
                ELSE IF address.neg
                THEN Raise([exc |-> "ValueError",
                            message |-> "hardware address cannot be negative"])
                ELSE [ok |-> TRUE, self |-> [cls |-> cls, _address |-> address.mag]]
      [] address.type = "bytes" ->
            LET length        == Len(address.data)
                size_in_bytes == (cls.size + 7) \div 8
                offset        == BitAnd7(8 - cls.size)
            IN  IF length # size_in_bytes
                THEN Raise(_value_error(address, "has wrong length for", <<cls>>))
                ELSE [ok |-> TRUE,
                      self |-> [cls |-> cls,
                                _address |-> Shr(from_bytes(address.data), offset)]]
      [] address.type = "str" ->
            LET parsed == _parse(address.text, <<cls>>)
            IN  IF parsed.ok
                THEN [ok |-> TRUE, self |-> [cls |-> cls, _address |-> parsed.address]]
                ELSE parsed
      [] OTHER ->
            Raise([exc |-> "TypeError", self_name |-> cls.name,
                   error |-> "cannot parse", type_name |-> _name(address)])

\* HWAddress.__init__, for type(self) = cls
__init__(cls, address) ==
    CASE address.type = "int" ->
            LET overflow == Shl(<<1>>, cls.size)
            IN  IF ~address.neg /\ IntGe(address.mag, overflow)
                THEN Raise(_value_error(address, "is too big for", <<cls>>))
                ELSE IF address.neg
                THEN Raise([exc |-> "ValueError",
                            message |-> "hardware address cannot be negative"])
                ELSE [ok |-> TRUE, self |-> [cls |-> cls, _address |-> address.mag]]
      [] address.type = "bytes" ->
            LET length        == Len(address.data)
                size_in_bytes == (cls.size + 7) \div 8
                offset        == BitAnd7(8 - cls.size)
            IN  IF length # size_in_bytes
                THEN Raise(_value_error(address, "has wrong length for", <<cls>>))
                ELSE [ok |-> TRUE,
                      self |-> [cls |-> cls,
                                _address |-> Shr(from_bytes(address.data), offset)]]
      [] address.type = "str" ->
            LET parsed == _parse(address.text, <<cls>>)
            IN  IF parsed.ok
                THEN [ok |-> TRUE, self |-> [cls |-> cls, _address |-> parsed.address]]
                ELSE parsed
      [] OTHER ->
            Raise([exc |-> "TypeError", self_name |-> cls.name,
                   error |-> "cannot parse", type_name |-> _name(address)])

RECURSIVE StrLoop(_, _)
\* The for loop of __str__ over the reversed format; the result list
StrLoop(reversed_format, unconsumed_address_value) ==
    IF reversed_format = <<>> THEN <<>>
    ELSE LET character == Head(reversed_format)
         IN  IF character = "x"
             THEN <<_HEX_DIGITS[LowBits(unconsumed_address_value, 4) + 1]>>
                  \o StrLoop(Tail(reversed_format), Shr(unconsumed_address_value, 4))
             ELSE <<character>> \o StrLoop(Tail(reversed_format), unconsumed_address_value)

\* __str__ without the shift that restores the padding of a partial digit
__str__Unshifted(self) ==
    Reverse(StrLoop(Reverse(FormatsOf(self)[1]), self._address))

__str__(self) ==
    LET offset == BitAnd3(4 - self.cls.size)
        unconsumed_address_value == Shl(self._address, offset)
    IN  Reverse(StrLoop(Reverse(FormatsOf(self)[1]), unconsumed_address_value))

\* __bytes__ without the shift that pads a partial byte
__bytes__Unshifted(self) ==
    to_bytes(self._address, (self.cls.size + 7) \div 8)

__bytes__(self) ==
    LET offset        == BitAnd7(8 - self.cls.size)
        size_in_bytes == (self.cls.size + 7) \div 8
    IN  to_bytes(Shl(self._address, offset), size_in_bytes)

__int__(self) == self._address

__eq__(self, other) ==
    IF ~IsInstance(other, self.cls) \/ self.cls.size # other.cls.size
    THEN FALSE
    ELSE self._address = other._address

__ne__(self, other) ==
    IF ~IsInstance(other, self.cls) \/ self.cls.size # other.cls.size
    THEN TRUE
    ELSE self._address # other._address

\* _aligned_address_integers with the comparison of the sizes turned around:
\* the wider address is shifted
_aligned_address_integersWider(address1, address2) ==
    LET size1 == address1.cls.size
        size2 == address2.cls.size
    IN  IF size1 < size2
        THEN <<__int__(address1), Shl(__int__(address2), size2 - size1)>>
        ELSE <<Shl(__int__(address1), size1 - size2), __int__(address2)>>

_aligned_address_integers(address1, address2) ==
    LET size1 == address1.cls.size
        size2 == address2.cls.size
    IN  IF size1 > size2
        THEN <<__int__(address1), Shl(__int__(address2), size1 - size2)>>
        ELSE <<Shl(__int__(address1), size2 - size1), __int__(address2)>>

__lt__(self, other) ==
    IF ~IsHWAddress(other)
    THEN "NotImplemented"
    ELSE LET al == _aligned_address_integers(self, other)
         IN  IntLt(al[1], al[2]) \/ (al[1] = al[2] /\ self.cls.size < other.cls.size)

__le__(self, other) ==
    IF ~IsHWAddress(other)
    THEN "NotImplemented"
    ELSE LET al == _aligned_address_integers(self, other)
         IN  IntLt(al[1], al[2]) \/ (al[1] = al[2] /\ self.cls.size <= other.cls.size)

__gt__(self, other) ==
    IF ~IsHWAddress(other)
    THEN "NotImplemented"
    ELSE LET al == _aligned_address_integers(self, other)
         IN  IntGt(al[1], al[2]) \/ (al[1] = al[2] /\ self.cls.size > other.cls.size)

__ge__(self, other) ==
    IF ~IsHWAddress(other)
    THEN "NotImplemented"
    ELSE LET al == _aligned_address_integers(self, other)
         IN  IntGt(al[1], al[2]) \/ (al[1] = al[2] /\ self.cls.size >= other.cls.size)

\* The comparison operators of Python, v == w, v != w, v < w, v <= w, v > w and
\* v >= w, for two addresses: when the class of w is a proper subclass of the
\* class of v, the reflected method of w is tried first, and no method of
\* HWAddress returns NotImplemented for an address
ReflectedFirst(v, w) == v.cls # w.cls /\ v.cls.name \in w.cls.bases

Eq(v, w) == IF ReflectedFirst(v, w) THEN __eq__(w, v) ELSE __eq__(v, w)
Ne(v, w) == IF ReflectedFirst(v, w) THEN __ne__(w, v) ELSE __ne__(v, w)
Lt(v, w) == IF ReflectedFirst(v, w) THEN __gt__(w, v) ELSE __lt__(v, w)
Le(v, w) == IF ReflectedFirst(v, w) THEN __ge__(w, v) ELSE __le__(v, w)
Gt(v, w) == IF ReflectedFirst(v, w) THEN __lt__(w, v) ELSE __gt__(v, w)
Ge(v, w) == IF ReflectedFirst(v, w) THEN __le__(w, v) ELSE __ge__(v, w)

\* _StartsWithOUI.oui
oui(self) == __init__(OUI, PyInt(Shr(__int__(self), self.cls.size - OUI.size)))

\* parse that constructs the first class in place of the matched one
parseFirstClass(string, clss) ==
    IF clss = <<>>
    THEN [ok |-> TRUE, none |-> TRUE]
    ELSE LET parsed == _parse(string, clss)
         IN  IF parsed.ok THEN __init__(clss[1], PyInt(parsed.address)) ELSE parsed

\* parse(string, *classes)
parse(string, clss) ==
    IF clss = <<>>
    THEN [ok |-> TRUE, none |-> TRUE]
    ELSE LET parsed == _parse(string, clss)
         IN  IF parsed.ok THEN __init__(parsed.cls, PyInt(parsed.address)) ELSE parsed

\* test.py, _bits: the low size bits of the address, as a string of 0 and 1
_bits(address) ==
    LET size == address.cls.size
        bits == Zeros(size) \o address._address
    IN  [i \in 1..size |-> IF bits[Len(bits) - size + i] = 1 THEN "1" ELSE "0"]

-----------------------------------------------------------------------------
\* The classes and inputs of the runs.

\* Bits of the widest class that test.py's _address_classes builds here
MaxSize == 9

\* Literal characters in a generated format string
MaxLiterals == 1

\* Bits of the widest class built with generated format strings
MaxFormatSize == 6

\* Characters of the longest arbitrary input string
MaxTextLen == 3

\* test.py, _address_classes: a subclass of HWAddress named after its size
Class(size_in_bits, format_strings) ==
    [name |-> "Class" \o ToString(size_in_bits), size |-> size_in_bits,
     formats |-> format_strings, bases |-> {"HWAddress"}]

Nibbles(size_in_bits) == (size_in_bits + 3) \div 4

\* All strings over chars of length lo..hi
Strings(chars, lo, hi) == UNION {[1..k -> chars] : k \in lo..hi}

\* test.py, _address_format_strings: size_in_nibbles times "x" with literals
\* from "-:." in between (here also after the last "x")
FormatStrings(literals, max_literals, size_in_nibbles) ==
    {f \in Strings({"x"} \cup literals, size_in_nibbles, size_in_nibbles + max_literals) :
        Cardinality({i \in 1..Len(f) : f[i] = "x"}) = size_in_nibbles}

\* One or two format strings
FormatLists(literals, max_literals, size_in_nibbles) ==
    LET F == FormatStrings(literals, max_literals, size_in_nibbles)
    IN  {<<f>> : f \in F} \cup {<<f, g>> : f \in F, g \in F}

\* The classes of test_int / test_bytes / test_ordering: one format, all "x"
DefaultClasses == {Class(s, << [i \in 1..Nibbles(s) |-> "x"] >>) : s \in 1..MaxSize}

\* The classes of test_str / test_alternate_str
FormatClasses ==
    UNION {{Class(s, fs) : fs \in FormatLists({"-", ":"}, MaxLiterals, Nibbles(s))} :
           s \in 1..MaxFormatSize}

\* The sizes of the classes that are tried on arbitrary strings: one and two
\* hexadecimal digits, the last one partial
TextSizes == {3, 6}

\* The classes that are tried on arbitrary strings: format strings with at
\* most one literal
TextClasses ==
    UNION {{Class(s, fs) : fs \in FormatLists({"-", ":"}, 1, Nibbles(s))} :
           s \in TextSizes}

ProvidedClasses == {OUI, CDI32, CDI40, EUI48, MAC, EUI60, EUI64}

\* All integers 0 .. 2^k - 1
Numerals(k) == {Norm(f) : f \in [1..k -> {0, 1}]}

\* A few integers of a class: 0, 1, the largest, the top bit alone, and the
\* digits 0123456789ABCDEF cut to the size of the class
Samples(size) ==
    LET hex == [i \in 1..64 |-> IntOf(16 + ((i - 1) \div 4))[2 + ((i - 1) % 4)]]
    IN  {<<>>, <<1>>, [i \in 1..size |-> 1], Shl(<<1>>, size - 1),
         Norm(SubSeq(hex, 1, size))}

\* Integers that are out of range: 2^size, 2^size + 1, -1
OutOfRange(size) ==
    {PyInt(Shl(<<1>>, size)), PyInt(Add(Shl(<<1>>, size), <<1>>)), PyNeg(<<1>>)}

\* Byte strings over a few byte values, of every length up to one more than
\* the class takes
ByteStrings(size) == Strings({0, 1, 128, 255}, 0, ((size + 7) \div 8) + 1)

None == [type |-> "NoneType"]

\* Characters of the arbitrary input strings: two hexadecimal digits, the
\* letter x, a letter that is no digit, and two separators
InputChars == {"0", "a", "x", "g", "-", ":"}

\* Classes whose format strings have one "x", for the calls with several classes
PairClasses ==
    {Class(s, fs) : s \in {3, 4},
                    fs \in {l \in FormatLists({"-"}, 1, 1) : Len(l) = 1 \/ l[1] # l[2]}}

\* Lists of classes for the calls on arbitrary strings
TextLists ==
    {<<K>> : K \in TextClasses}

PairLists == {<<K, L>> : K \in PairClasses, L \in PairClasses}

\* An input string with one character replaced
Variants(text) ==
    {[text EXCEPT ![i] = ch] : i \in 1..Len(text), ch \in InputChars}

\* Strings for a provided class: the digits 0123.. written in each of its
\* formats, the same in lower case, and these with one character replaced
ProvidedTexts(K) ==
    LET address == [cls |-> K, _address |-> Norm(SubSeq(
                       [i \in 1..64 |-> IntOf(16 + ((i - 1) \div 4))[2 + ((i - 1) % 4)]],
                       1, K.size))]
        lower(t) == [i \in 1..Len(t) |->
                        IF t[i] = "A" THEN "a" ELSE IF t[i] = "B" THEN "b" ELSE t[i]]
        texts == {__str__([address EXCEPT !.cls.formats = <<f>>]) :
                     f \in {K.formats[i] : i \in 1..Len(K.formats)}}
    IN  texts \cup {lower(t) : t \in texts} \cup UNION {Variants(t) : t \in texts}

\* Lists of provided classes for parse
ProvidedLists ==
    {<<K>> : K \in ProvidedClasses}
    \cup {<<EUI48, MAC>>, <<MAC, EUI48>>, <<OUI, CDI32, CDI40, EUI48, EUI60, EUI64>>,
          <<EUI64, MAC, OUI>>}

\* test.py, _lists_of_distinctly_formatted_addresses: classes whose first
\* formats differ from each other
MultiLists ==
    {l \in PairLists : l[1].formats[1] # l[2].formats[1]}

-----------------------------------------------------------------------------
\* The state: classes are the classes in scope and arg the argument of the
\* constructor call (first an input, later the output of a conversion); a is
\* the address constructed from the input, b the one constructed from a
\* conversion of a, by parse or by oui; call names the last call (and the
\* class a constructor call was made on) and ret is what it returned or
\* raised.  c is a third address, for the comparisons.

Init ==
    /\ a = None /\ b = None /\ c = None
    /\ call = [name |-> "start"]
    /\ ret = None
    /\ \/ /\ classes \in {<<K>> : K \in DefaultClasses}
          /\ arg \in {PyInt(n) : n \in Numerals(classes[1].size)}
                     \cup OutOfRange(classes[1].size)
                     \cup {PyBytes(d) : d \in ByteStrings(classes[1].size)}
                     \cup {PyFloat}
       \/ /\ classes \in {<<K>> : K \in FormatClasses} \cup MultiLists
          /\ arg \in {PyInt(n) : n \in UNION {Samples(classes[i].size) : i \in 1..Len(classes)}}
       \/ /\ classes \in ProvidedLists
          /\ arg \in {PyInt(n) : n \in Samples(classes[1].size)}
                     \cup OutOfRange(classes[1].size)
                     \cup {PyBytes([i \in 1..k |-> v]) : k \in 0..9, v \in {0, 255}}
                     \cup {PyStr(t) : t \in UNION {ProvidedTexts(classes[i]) : i \in 1..Len(classes)}}
                     \cup {PyFloat}
       \/ /\ classes \in TextLists
          /\ arg \in {PyStr(t) : t \in Strings(InputChars, 0, MaxTextLen)}
       \/ /\ classes \in PairLists
          /\ arg \in {PyStr(t) : t \in Strings(InputChars, 0, 2)}
       \/ /\ classes = <<>>
          /\ arg \in {PyStr(t) : t \in Strings(InputChars, 0, 1)}

\* address = Class(arg), for one of the classes
Construct(i) ==
    /\ call.name = "start"
    /\ i \in 1..Len(classes)
    /\ ret' = __init__(classes[i], arg)
    /\ a' = IF ret'.ok THEN ret'.self ELSE None
    /\ call' = [name |-> "__init__", cls |-> classes[i]]
    /\ UNCHANGED <<classes, arg, b, c>>

\* parse(arg, *classes)
Parse ==
    /\ call.name = "start"
    /\ arg.type = "str"
    /\ ret' = parse(arg.text, classes)
    /\ b' = IF ret'.ok /\ "self" \in DOMAIN ret' THEN ret'.self ELSE None
    /\ call' = [name |-> "parse"]
    /\ UNCHANGED <<classes, arg, a, c>>

\* _parse(arg, *classes)
Match ==
    /\ call.name = "start"
    /\ arg.type = "str"
    /\ classes # <<>>
    /\ ret' = _parse(arg.text, classes)
    /\ call' = [name |-> "_parse"]
    /\ UNCHANGED <<classes, arg, a, b, c>>

\* str(address)
ToStr ==
    /\ call.name = "__init__" /\ a # None /\ arg.type = "int"
    /\ ret' = [ok |-> TRUE, text |-> __str__(a)]
    /\ call' = [name |-> "__str__"]
    /\ UNCHANGED <<classes, arg, a, b, c>>

\* test_alternate_str: address.formats = (format,), then str(address)
AlternateStr(format) ==
    /\ call.name = "__init__" /\ a # None /\ arg.type = "int"
    /\ format \in {a.cls.formats[i] : i \in 1..Len(a.cls.formats)}
    /\ a' = [cls |-> a.cls, _address |-> a._address, formats |-> <<format>>]
    /\ ret' = [ok |-> TRUE, text |-> __str__(a')]
    /\ call' = [name |-> "__str__"]
    /\ UNCHANGED <<classes, arg, b, c>>

\* bytes(address)
ToBytes ==
    /\ call.name = "__init__" /\ a # None /\ arg.type = "int"
    /\ ret' = __bytes__(a)
    /\ call' = [name |-> "__bytes__"]
    /\ UNCHANGED <<classes, arg, a, b, c>>

\* int(address)
ToInt ==
    /\ call.name = "__init__" /\ a # None /\ arg.type = "int"
    /\ ret' = [ok |-> TRUE, int |-> __int__(a)]
    /\ call' = [name |-> "__int__"]
    /\ UNCHANGED <<classes, arg, a, b, c>>

\* address.oui, for the classes derived from _StartsWithOUI
Oui ==
    /\ call.name = "__init__" /\ a # None /\ arg.type = "int"
    /\ "_StartsWithOUI" \in a.cls.bases
    /\ ret' = oui(a)
    /\ b' = IF ret'.ok THEN ret'.self ELSE None
    /\ call' = [name |-> "oui", cls |-> OUI]
    /\ UNCHANGED <<classes, arg, a, c>>

\* Class(str(address))
FromStr ==
    /\ call.name = "__str__"
    /\ arg' = PyStr(ret.text)
    /\ ret' = __init__(a.cls, arg')
    /\ b' = IF ret'.ok THEN ret'.self ELSE None
    /\ call' = [name |-> "Class(str(address))", cls |-> a.cls]
    /\ UNCHANGED <<classes, a, c>>

\* parse(str(address), *classes)
ParseBack ==
    /\ call.name = "__str__"
    /\ arg' = PyStr(ret.text)
    /\ ret' = parse(ret.text, classes)
    /\ b' = IF ret'.ok THEN ret'.self ELSE None
    /\ call' = [name |-> "parse(str(address))"]
    /\ UNCHANGED <<classes, a, c>>

\* Class(bytes(address))
FromBytes ==
    /\ call.name = "__bytes__" /\ ret.ok
    /\ arg' = PyBytes(ret.data)
    /\ ret' = __init__(a.cls, arg')
    /\ b' = IF ret'.ok THEN ret'.self ELSE None
    /\ call' = [name |-> "Class(bytes(address))", cls |-> a.cls]
    /\ UNCHANGED <<classes, a, c>>

\* Class(int(address))
FromInt ==
    /\ call.name = "__int__"
    /\ arg' = PyInt(ret.int)
    /\ ret' = __init__(a.cls, arg')
    /\ b' = IF ret'.ok THEN ret'.self ELSE None
    /\ call' = [name |-> "Class(int(address))", cls |-> a.cls]
    /\ UNCHANGED <<classes, a, c>>

Next ==
    \/ \E i \in 1..2 : Construct(i)
    \/ Parse
    \/ Match
    \/ ToStr
    \/ \E format \in UNION {{K.formats[i] : i \in 1..Len(K.formats)} :
                            K \in {classes[j] : j \in 1..Len(classes)}} :
           AlternateStr(format)
    \/ ToBytes
    \/ ToInt
    \/ Oui
    \/ FromStr
    \/ ParseBack
    \/ FromBytes
    \/ FromInt

Spec == Init /\ [][Next]_vars

-----------------------------------------------------------------------------
\* The comparisons, on three addresses.

\* The addresses Class(n) of a class, for the integers n of a set
AddressesOf(K, ns) ==
    {r.self : r \in {q \in {__init__(K, PyInt(n)) : n \in ns} : q.ok}}

\* Bits of the widest generated class in the comparisons
MaxOrdSize == 3

\* The addresses that are compared: every address of the classes of
\* test_ordering up to MaxOrdSize bits, those of a second class of 2 bits, and
\* a few of OUI, CDI32, EUI48 and MAC
OrdAddresses ==
    UNION {AddressesOf(K, Numerals(K.size)) :
           K \in {L \in DefaultClasses : L.size <= MaxOrdSize}
                 \cup {Class(2, << <<"x", "-">> >>)}}

ProvidedAddresses ==
    UNION {AddressesOf(K, Samples(K.size)) : K \in {OUI, EUI48, MAC}}

InitOrd ==
    /\ classes = <<>>
    /\ arg = None
    /\ call = [name |-> "start"]
    /\ ret = None
    /\ a \in OrdAddresses \cup ProvidedAddresses
    /\ b \in OrdAddresses \cup ProvidedAddresses
    /\ c \in OrdAddresses \cup ProvidedAddresses

\* test_ordering: every comparison operator on every pair of the addresses;
\* ret[op][i][j] is the result for the i-th and the j-th of a, b, c
Compare ==
    /\ call.name = "start"
    /\ LET x == <<a, b, c>>
       IN  ret' = [ok |-> TRUE,
                   eq |-> [i \in 1..3 |-> [j \in 1..3 |-> Eq(x[i], x[j])]],
                   ne |-> [i \in 1..3 |-> [j \in 1..3 |-> Ne(x[i], x[j])]],
                   lt |-> [i \in 1..3 |-> [j \in 1..3 |-> Lt(x[i], x[j])]],
                   le |-> [i \in 1..3 |-> [j \in 1..3 |-> Le(x[i], x[j])]],
                   gt |-> [i \in 1..3 |-> [j \in 1..3 |-> Gt(x[i], x[j])]],
                   ge |-> [i \in 1..3 |-> [j \in 1..3 |-> Ge(x[i], x[j])]]]
    /\ call' = [name |-> "compare"]
    /\ UNCHANGED <<classes, arg, a, b, c>>

NextOrd == Compare

SpecOrd == InitOrd /\ [][NextOrd]_vars

-----------------------------------------------------------------------------
\* What the properties are stated with.

\* ceil(n / d)
CeilDiv(n, d) == (n \div d) + (IF n % d = 0 THEN 0 ELSE 1)

\* The value of each hexadecimal digit
DigitValue ==
    [ch \in {"0", "1", "2", "3", "4", "5", "6", "7", "8", "9",
             "A", "B", "C", "D", "E", "F", "a", "b", "c", "d", "e", "f"} |->
        CASE ch = "0" -> 0 [] ch = "1" -> 1 [] ch = "2" -> 2 [] ch = "3" -> 3
          [] ch = "4" -> 4 [] ch = "5" -> 5 [] ch = "6" -> 6 [] ch = "7" -> 7
          [] ch = "8" -> 8 [] ch = "9" -> 9
          [] ch \in {"A", "a"} -> 10 [] ch \in {"B", "b"} -> 11
          [] ch \in {"C", "c"} -> 12 [] ch \in {"D", "d"} -> 13
          [] ch \in {"E", "e"} -> 14 [] ch \in {"F", "f"} -> 15]

IsHexDigit(ch) == ch \in DOMAIN DigitValue

\* The big-endian value of the hexadecimal digits of a string, four bits a digit
HexDigitsValue(text) ==
    LET digits == SelectSeq(text, IsHexDigit)
    IN  Norm([i \in 1..(4 * Len(digits)) |->
                (DigitValue[digits[((i - 1) \div 4) + 1]] \div (2 ^ (3 - ((i - 1) % 4)))) % 2])

\* The bits of a byte string, eight a byte, first byte first
ByteBits(data) ==
    [i \in 1..(8 * Len(data)) |->
        (data[((i - 1) \div 8) + 1] \div (2 ^ (7 - ((i - 1) % 8)))) % 2]

\* The input with each hexadecimal digit replaced by the wildcard
Normalized(text) == [i \in 1..Len(text) |-> IF IsHexDigit(text[i]) THEN "x" ELSE text[i]]

FormatSet(K) == {K.formats[i] : i \in 1..Len(K.formats)}

\* Every format of the class has ceil(size / 4) wildcards, and literals from "-:."
WellFormed(K) ==
    \A f \in FormatSet(K) :
        /\ Cardinality({i \in 1..Len(f) : f[i] = "x"}) = CeilDiv(K.size, 4)
        /\ \A i \in 1..Len(f) : f[i] \in {"x", "-", ":", "."}

\* The address holds an integer in 0 .. 2^size - 1
InRange(address) == Len(address._address) <= address.cls.size

-----------------------------------------------------------------------------
\* C1: Text round-trip per format.  For a class whose formats have
\* ceil(size / 4) wildcards each, an address Class(n) written under any format
\* of the class (the first or another, set as in test_alternate_str) and
\* constructed again from that text is an address of the same integer that
\* is equal to Class(n), also when size is no multiple of 4.
C1_RoundTripText ==
    (call.name = "Class(str(address))" /\ WellFormed(a.cls)) =>
        /\ ret.ok
        /\ __int__(b) = __int__(a)
        /\ Eq(b, a)

\* C1 is reached with a partial last digit, a non-zero integer and a format
\* that is not the first one of the class and has a literal.
C1_Witness ==
    /\ call.name = "Class(str(address))"
    /\ ret.ok
    /\ a.cls.size % 4 # 0
    /\ a._address # <<>>
    /\ "formats" \in DOMAIN a
    /\ a.formats[1] # a.cls.formats[1]
    /\ \E i \in 1..Len(a.formats[1]) : a.formats[1][i] # "x"

\* C2: Bytes round-trip.  bytes(Class(n)) has ceil(size / 8) bytes, which are
\* n shifted left by (8 - size mod 8) mod 8 in big-endian, and the class
\* constructed from these bytes has the integer n and equals Class(n).
C2_RoundTripBytes ==
    /\ call.name = "__bytes__" =>
        /\ ret.ok
        /\ Len(ret.data) = CeilDiv(a.cls.size, 8)
        /\ \A i \in 1..Len(ret.data) : ret.data[i] \in 0..255
        /\ ByteBits(ret.data) =
               Zeros(8 * Len(ret.data) - Len(a._address) - ((8 - (a.cls.size % 8)) % 8))
               \o a._address \o Zeros((8 - (a.cls.size % 8)) % 8)
    /\ call.name = "Class(bytes(address))" =>
        /\ ret.ok
        /\ __int__(b) = __int__(a)
        /\ Eq(b, a)

\* C2 is reached for a size that is no multiple of 8 and takes two bytes, with
\* the top bit of the integer set.
C2_Witness ==
    /\ call.name = "Class(bytes(address))"
    /\ ret.ok
    /\ a.cls.size % 8 # 0
    /\ a.cls.size > 8
    /\ Len(a._address) = a.cls.size
    /\ Len(arg.data) = 2

-----------------------------------------------------------------------------
\* The last call was a constructor call Class(arg), on the class call.cls
IsConstructorCall ==
    call.name \in {"__init__", "Class(str(address))", "Class(bytes(address))",
                   "Class(int(address))"}

\* The last call raised
Raised == "ok" \in DOMAIN ret /\ ~ret.ok

\* The last call returned an address
Returned == "ok" \in DOMAIN ret /\ ret.ok /\ "self" \in DOMAIN ret

\* The classes the last call was made with
Candidates == IF "cls" \in DOMAIN call THEN <<call.cls>> ELSE classes

\* C4 as claimed: for classes whose first formats differ from each other
\* (each with one or several formats, in any order) and an address v of one
\* of them, parse(str(v), *classes) returns an address of the class of v that
\* is equal to v.
C4_MultiKindParse ==
    (/\ call.name = "parse(str(address))"
     /\ "formats" \notin DOMAIN a
     /\ \A i, j \in 1..Len(classes) :
            i # j => classes[i].formats[1] # classes[j].formats[1]) =>
        /\ Returned
        /\ b.cls = a.cls
        /\ Eq(b, a)

\* C4, amended: the same, when no class earlier in the list than the class of
\* v offers the first format of the class of v among its formats.
C4_MultiKindParseFirstOffer ==
    (/\ call.name = "parse(str(address))"
     /\ "formats" \notin DOMAIN a
     /\ \A i, j \in 1..Len(classes) :
            i # j => classes[i].formats[1] # classes[j].formats[1]
     /\ \A i \in 1..Len(classes) :
            a.cls.formats[1] \in FormatSet(classes[i]) =>
                \E k \in 1..i : classes[k] = a.cls) =>
        /\ Returned
        /\ b.cls = a.cls
        /\ Eq(b, a)

\* C4 is reached with two classes of several formats each and of different
\* size, the address being of the second class, whose first format the first
\* class does not offer but whose other format it does.
C4_Witness ==
    /\ call.name = "parse(str(address))"
    /\ Returned
    /\ "formats" \notin DOMAIN a
    /\ Len(classes) = 2
    /\ classes[1].formats[1] # classes[2].formats[1]
    /\ a.cls = classes[2]
    /\ classes[1].size # classes[2].size
    /\ Len(classes[1].formats) = 2 /\ Len(classes[2].formats) = 2
    /\ a.cls.formats[1] \notin FormatSet(classes[1])
    /\ a.cls.formats[2] \in FormatSet(classes[1])
    /\ a._address # <<>>

\* C6 as claimed: Class(text) succeeds only if a format of the class has the
\* length of the text, with a hexadecimal digit at every wildcard and the
\* same character at every literal; every other text raises ValueError; and
\* on success the integer is the value of the digits shifted right by
\* (4 - size mod 4) mod 4.
C6_TextAcceptanceExact ==
    (IsConstructorCall /\ arg.type = "str") =>
        LET K == call.cls
            text == arg.text
            matches == \E f \in FormatSet(K) :
                          /\ Len(f) = Len(text)
                          /\ \A i \in 1..Len(f) :
                                IF f[i] = "x" THEN IsHexDigit(text[i])
                                              ELSE text[i] = f[i]
        IN  /\ ret.ok => matches
            /\ ~matches => (Raised /\ ret.error.exc = "ValueError")
            /\ ret.ok => __int__(ret.self) =
                             Shr(HexDigitsValue(text), (4 - (K.size % 4)) % 4)

\* C7: Range invariant.  Every address that a call returns holds an integer
\* in 0 .. 2^size - 1 of its class; an integer outside that range and a byte
\* string of another length than ceil(size / 8) raise ValueError.
C7_RangeInvariant ==
    /\ a # None => InRange(a)
    /\ b # None => InRange(b)
    /\ Returned => InRange(ret.self)
    /\ (IsConstructorCall /\ arg.type = "int"
            /\ (arg.neg \/ Len(arg.mag) > call.cls.size)) =>
        (Raised /\ ret.error.exc = "ValueError")
    /\ (IsConstructorCall /\ arg.type = "bytes"
            /\ Len(arg.data) # CeilDiv(call.cls.size, 8)) =>
        (Raised /\ ret.error.exc = "ValueError")

\* C7 is reached by a byte string whose low padding bits are set, for a size
\* that is no multiple of 8.
C7_Witness ==
    /\ call.name = "__init__"
    /\ arg.type = "bytes"
    /\ Returned
    /\ call.cls.size % 8 # 0
    /\ arg.data[Len(arg.data)] = 255
    /\ Len(ret.self._address) = call.cls.size

\* The error carries the input and the names of the classes
CarriesValueAndNames(error, value, clss) ==
    /\ "value" \in DOMAIN error
    /\ error.value = value
    /\ "class_names" \in DOMAIN error
    /\ Len(error.class_names) = Len(clss)
    /\ \A i \in 1..Len(clss) :
          error.class_names[i] \in {clss[i].name, "or " \o clss[i].name}

\* C9 as claimed: every error raised carries the input and the names of the
\* candidate classes.
C9_EveryErrorCarriesInputAndKinds ==
    Raised => CarriesValueAndNames(ret.error, arg, Candidates)

\* C9, amended: the errors for an integer that is too big, a byte string of
\* wrong length and a non-empty string that matches no format carry the input
\* and the names of the candidate classes; the errors for a negative integer
\* and for an empty string are a fixed message with neither; the TypeError
\* for another input type names the class and the type of the input, not the
\* input.
C9_ErrorDiagnostics ==
    Raised =>
        CASE arg.type = "int" /\ ~arg.neg ->
                /\ CarriesValueAndNames(ret.error, arg, Candidates)
                /\ ret.error.exc = "ValueError"
          [] arg.type = "int" /\ arg.neg ->
                ret.error = [exc |-> "ValueError",
                             message |-> "hardware address cannot be negative"]
          [] arg.type = "bytes" ->
                /\ CarriesValueAndNames(ret.error, arg, Candidates)
                /\ ret.error.exc = "ValueError"
          [] arg.type = "str" /\ arg.text # <<>> ->
                /\ CarriesValueAndNames(ret.error, arg, Candidates)
                /\ ret.error.exc = "ValueError"
          [] arg.type = "str" /\ arg.text = <<>> ->
                ret.error = [exc |-> "ValueError",
                             message |-> "hardware address cannot be an empty string"]
          [] OTHER ->
                /\ ret.error.exc = "TypeError"
                /\ "value" \notin DOMAIN ret.error
                /\ ret.error.self_name = call.cls.name
                /\ ret.error.type_name = arg.type

\* C9 is reached by parse failing on a non-empty string with several classes.
C9_Witness ==
    /\ call.name = "parse"
    /\ Raised
    /\ Len(classes) > 1
    /\ arg.text # <<>>

-----------------------------------------------------------------------------
\* The three addresses that were compared
Compared == <<a, b, c>>

\* The bit string of an address followed by zeros, max_size characters long
LeftAligned(address, max_size) ==
    _bits(address) \o [i \in 1..(max_size - address.cls.size) |-> "0"]

\* C3: Cross-width ordering rule.  Each of <, <=, >, >= on two addresses of
\* any classes and sizes is the lexicographic comparison of their bit strings
\* (the integer in exactly size bits, most significant first, a proper prefix
\* being less than its extensions); that is, the comparison of the bit strings
\* left-aligned to the larger size, and on a tie the smaller size first.
C3_OrderingRule ==
    call.name = "compare" =>
        \A i, j \in 1..3 :
            LET v == Compared[i]
                w == Compared[j]
                m == IF v.cls.size > w.cls.size THEN v.cls.size ELSE w.cls.size
                less == StrLt(_bits(v), _bits(w))
                more == StrLt(_bits(w), _bits(v))
                same == _bits(v) = _bits(w)
            IN  /\ ret.lt[i][j] = less
                /\ ret.le[i][j] = (less \/ same)
                /\ ret.gt[i][j] = more
                /\ ret.ge[i][j] = (more \/ same)
                /\ less = \/ StrLt(LeftAligned(v, m), LeftAligned(w, m))
                          \/ /\ LeftAligned(v, m) = LeftAligned(w, m)
                             /\ v.cls.size < w.cls.size

\* C3 is reached by a narrower address that is a proper prefix of a wider one
\* and by an address that is no prefix of, and greater than, a narrower one.
C3_Witness ==
    /\ call.name = "compare"
    /\ a.cls.size < b.cls.size
    /\ a._address # <<>>
    /\ SubSeq(_bits(b), 1, a.cls.size) = _bits(a)
    /\ ret.lt[1][2] /\ ~ret.ge[1][2]
    /\ c.cls.size > a.cls.size
    /\ c.cls.size < b.cls.size
    /\ ret.gt[3][2] /\ ret.gt[3][1]

\* C5 as claimed: a == b holds exactly if the classes of a and b have the
\* same size and their integers are equal, whatever the classes are; a == b
\* and b == a agree; and a != b is the negation of a == b.
C5_EqualityBySizeAndInteger ==
    call.name = "compare" =>
        \A i, j \in 1..3 :
            LET v == Compared[i]
                w == Compared[j]
            IN  /\ ret.eq[i][j] = (v.cls.size = w.cls.size /\ __int__(v) = __int__(w))
                /\ ret.eq[i][j] = ret.eq[j][i]
                /\ ret.ne[i][j] = ~ret.eq[i][j]

\* C8 as claimed: the ordering is a total order consistent with equality:
\* a < a never holds; a < b and b < c imply a < c; a <= b or b <= a; a <= b
\* and b <= a imply a == b; a > b is b < a, a >= b is b <= a, and a <= b is
\* not (b < a).
C8_TotalOrderWithEquality ==
    call.name = "compare" =>
        /\ \A i \in 1..3 : ~ret.lt[i][i]
        /\ \A i, j, k \in 1..3 : (ret.lt[i][j] /\ ret.lt[j][k]) => ret.lt[i][k]
        /\ \A i, j \in 1..3 :
            /\ ret.le[i][j] \/ ret.le[j][i]
            /\ (ret.le[i][j] /\ ret.le[j][i]) => ret.eq[i][j]
            /\ ret.gt[i][j] = ret.lt[j][i]
            /\ ret.ge[i][j] = ret.le[j][i]
            /\ ret.le[i][j] = ~ret.lt[j][i]

====
